---- MODULE Spec2Model ----
(***************************************************************************)
(* Model of src/stirling/common/event_parser.h: the PositionConverter      *)
(* (offset in the combined buffer -> position in the disjoint buffers) and *)
(* the EventParser (Append / ParseFrames) that drives a protocol adapter.  *)
(*                                                                         *)
(* Values of type size_t are represented by integers; a value of 2^63 or   *)
(* more is represented by its two's complement counterpart, so that        *)
(* std::string::npos (= size_t(-1)) is -1 and a subtraction that wraps is  *)
(* the plain integer difference.                                           *)
(***************************************************************************)
EXTENDS Integers, Sequences, FiniteSets, TLC

\* ------------------------------------------------------------------------
\* Bounds
\* ------------------------------------------------------------------------
\* Longest fragment list handed to a stand-alone PositionConverter.
MaxConvFrags == 3
\* Most fragments an EventParser accumulates between two ParseFrames calls.
MaxFrags == 2
\* Longest fragment (event.msg), in bytes.
MaxFragLen == 2
\* Most bytes an EventParser accumulates between two ParseFrames calls.
MaxBytes == 3
\* How far past the end of the combined buffer a queried offset may lie.
Overshoot == 1
\* Most frames already in the caller's deque when ParseFrames is called.
MaxPrevFrames == 1

\* Byte values of the traced data and capture timestamps of the events.
Bytes == {"A", "B"}
TsSet == {100, 200}

\* std::string::npos
NPOS == -1

\* ------------------------------------------------------------------------
\* Values
\* ------------------------------------------------------------------------
SeqsUpTo(S, n) == UNION {[1..k -> S] : k \in 0..n}

\* The payloads an event can carry (std::string_view event.msg).
Fragments == SeqsUpTo(Bytes, MaxFragLen)

\* Payloads of one byte value: all that matters of them to the converter and
\* to an adapter that is not interpreted is their size.
OpaqueFragments == SeqsUpTo({"A"}, MaxFragLen)

\* struct BufferPosition
BufferPosition(seq, off) == [seq_num |-> seq, offset |-> off]

RECURSIVE TotalSize(_)
TotalSize(ms) == IF ms = <<>> THEN 0 ELSE Len(Head(ms)) + TotalSize(Tail(ms))

VARIABLES
  op,               \* the operation that produced the current state
  \* -- a stand-alone PositionConverter and the list it is queried against
  msgs,             \* the msgs argument of Convert
  curr_seq_,
  size_,
  last_query_pos_,
  position,         \* the BufferPosition returned by the last Convert
  dcheck_ok,        \* outcome of the DCHECK_GE of the last Convert
  queries,          \* the offsets of the last two Convert calls on the instance
  monotone,         \* offsets since construction / Reset were non-decreasing
  \* -- an EventParser
  msgs_,
  ts_nses_,
  msgs_size_,
  \* -- what the operation that produced the current state did, when it was a
  \*    ParseFrames call (empty after any other operation)
  frames,           \* the caller's deque when the call returned
  result,           \* the ParseResult<BufferPosition> it returned
  call,             \* its arguments, its locals and the adapter calls it made
  \* -- history
  appended,         \* the events appended since the last ParseFrames
  prev_cycle        \* buffer and outcome of the last completed ParseFrames,
                    \* when it asked for more data and decoded no frame

convVars == <<msgs, curr_seq_, size_, last_query_pos_, position, dcheck_ok,
              queries, monotone>>
parserVars == <<msgs_, ts_nses_, msgs_size_, frames, result, call, appended,
                prev_cycle>>
vars == <<op, convVars, parserVars>>

\* ------------------------------------------------------------------------
\* PositionConverter
\* ------------------------------------------------------------------------
\* The while loop of Convert, from cursor (seq, size).
RECURSIVE ConvertLoop_NoAccumulate(_, _, _, _)
ConvertLoop_NoAccumulate(ms, pos, seq, size) ==
  IF seq < Len(ms)
  THEN IF pos < size + Len(ms[seq + 1])
       THEN [curr_seq_ |-> seq, size_ |-> size,
             position |-> BufferPosition(seq, pos - size)]
       ELSE ConvertLoop_NoAccumulate(ms, pos, seq + 1, size)
  ELSE [curr_seq_ |-> seq, size_ |-> size, position |-> BufferPosition(seq, 0)]

RECURSIVE ConvertLoop_Inclusive(_, _, _, _)
ConvertLoop_Inclusive(ms, pos, seq, size) ==
  IF seq < Len(ms)
  THEN IF pos <= size + Len(ms[seq + 1])
       THEN [curr_seq_ |-> seq, size_ |-> size,
             position |-> BufferPosition(seq, pos - size)]
       ELSE ConvertLoop_Inclusive(ms, pos, seq + 1, size + Len(ms[seq + 1]))
  ELSE [curr_seq_ |-> seq, size_ |-> size, position |-> BufferPosition(seq, 0)]

RECURSIVE ConvertLoop_EndOffset(_, _, _, _)
ConvertLoop_EndOffset(ms, pos, seq, size) ==
  IF seq < Len(ms)
  THEN IF pos < size + Len(ms[seq + 1])
       THEN [curr_seq_ |-> seq, size_ |-> size,
             position |-> BufferPosition(seq, pos - size)]
       ELSE ConvertLoop_EndOffset(ms, pos, seq + 1, size + Len(ms[seq + 1]))
  ELSE [curr_seq_ |-> seq, size_ |-> size,
        position |-> BufferPosition(seq, pos - size)]

RECURSIVE ConvertLoop(_, _, _, _)
ConvertLoop(ms, pos, seq, size) ==
  IF seq < Len(ms)
  THEN IF pos < size + Len(ms[seq + 1])
       THEN [curr_seq_ |-> seq, size_ |-> size,
             position |-> BufferPosition(seq, pos - size)]
       ELSE ConvertLoop(ms, pos, seq + 1, size + Len(ms[seq + 1]))
  ELSE [curr_seq_ |-> seq, size_ |-> size, position |-> BufferPosition(seq, 0)]

\* The converter as a value: its three private members.
FreshConverter == [curr_seq_ |-> 0, size_ |-> 0, last_query_pos_ |-> 0]

\* Convert as a function of the converter: the new members, the returned
\* position and whether the DCHECK_GE(pos, last_query_pos_) held.
Convert_NoRecord(conv, ms, pos) ==
  LET r == ConvertLoop(ms, pos, conv.curr_seq_, conv.size_)
  IN  [conv |-> [curr_seq_ |-> r.curr_seq_, size_ |-> r.size_,
                 last_query_pos_ |-> conv.last_query_pos_],
       position |-> r.position,
       dcheck_ok |-> pos >= conv.last_query_pos_]

Convert_ResetOnBackward(conv, ms, pos) ==
  LET back == pos <= conv.last_query_pos_
      r == ConvertLoop(ms, pos, IF back THEN 0 ELSE conv.curr_seq_,
                       IF back THEN 0 ELSE conv.size_)
  IN  [conv |-> [curr_seq_ |-> r.curr_seq_, size_ |-> r.size_,
                 last_query_pos_ |-> pos],
       position |-> r.position,
       dcheck_ok |-> pos >= conv.last_query_pos_]

Convert_StrictCheck(conv, ms, pos) ==
  LET r == ConvertLoop(ms, pos, conv.curr_seq_, conv.size_)
  IN  [conv |-> [curr_seq_ |-> r.curr_seq_, size_ |-> r.size_,
                 last_query_pos_ |-> pos],
       position |-> r.position,
       dcheck_ok |-> pos > conv.last_query_pos_]

Convert(conv, ms, pos) ==
  LET r == ConvertLoop(ms, pos, conv.curr_seq_, conv.size_)
  IN  [conv |-> [curr_seq_ |-> r.curr_seq_, size_ |-> r.size_,
                 last_query_pos_ |-> pos],
       position |-> r.position,
       dcheck_ok |-> pos >= conv.last_query_pos_]

\* ------------------------------------------------------------------------
\* Protocol adapter: FindFrameBoundary<TFrameType> and ParseFrames<TFrameType>
\* are declared here and implemented per protocol.  The model lets them give
\* every answer their declarations permit.
\* ------------------------------------------------------------------------
\* enum class ParseState, the values an adapter reports.
AdapterStates == {"kInvalid", "kNeedsMoreData", "kSuccess"}

RECURSIVE SortedSeq(_)
SortedSeq(S) ==
  IF S = {} THEN <<>>
  ELSE LET m == CHOOSE x \in S : \A y \in S : x <= y
       IN  <<m>> \o SortedSeq(S \ {m})

\* The frames decoded from buf at the given starts, as the adapter appends
\* them: the bytes of each frame, and the timestamp not yet assigned.
NewFrames(buf, starts, end) ==
  [i \in 1..Len(starts) |->
     [body |-> SubSeq(buf, starts[i] + 1,
                      IF i < Len(starts) THEN starts[i + 1] ELSE end),
      timestamp_ns |-> 0]]

\* FindFrameBoundary(type, buf, start_pos): the position of a frame start in
\* buf, which must be > start_pos, or npos.
FindFrameBoundary(buf, start_pos) ==
  {NPOS} \cup {b \in 0..(Len(buf) - 1) : b > start_pos}

\* stirling::ParseFrames(type, buf, frames): the start positions in buf of the
\* frames it appended, the number of bytes consumed and the state of the last
\* attempted frame.
ParseFramesAdapter(buf) ==
  {[start_positions |-> SortedSeq(S), end_position |-> e, state |-> st,
    frames |-> NewFrames(buf, SortedSeq(S), e)] :
     <<S, e, st>> \in
       {t \in (SUBSET (0..(Len(buf) - 1))) \X (0..Len(buf)) \X AdapterStates :
          \A p \in t[1] : p < t[2]}}

\* ------------------------------------------------------------------------
\* EventParser
\* ------------------------------------------------------------------------
\* std::string Combine() const
RECURSIVE Combine(_)
Combine(ms) == IF ms = <<>> THEN <<>> ELSE Head(ms) \o Combine(Tail(ms))

\* std::string_view::remove_prefix(n), for n <= size()
RemovePrefix(buf, n) == SubSeq(buf, n + 1, Len(buf))

\* constexpr int kStartPos = 1;
kStartPos == 1

\* The offset at which parsing starts: the boundary found when resyncing, and
\* 0 when not resyncing or when no boundary was found.
StartPos_FallbackToSearchStart(resync, found) ==
  IF resync THEN (IF found = NPOS THEN kStartPos ELSE found) ELSE 0

StartPos_StayAtFront(resync, found) == 0

StartPos(resync, found) ==
  IF resync THEN (IF found = NPOS THEN 0 ELSE found) ELSE 0

\* The loop that matches timestamps with the parsed frames, from iteration i
\* (1-based): acc holds the converter, the frames, the positions collected so
\* far, the offsets handed to the converter, whether the converter's DCHECK_GE
\* held in every Convert and whether every DCHECK held.
RECURSIVE MatchTimestamps_NoStartPos(_, _, _, _, _, _, _)
MatchTimestamps_NoStartPos(i, starts, start_pos, ms, ts, prev_size, acc) ==
  IF i > Len(starts) THEN acc
  ELSE LET c == Convert(acc.conv, ms, starts[i])
           seq == c.position.seq_num
       IN  MatchTimestamps_NoStartPos(i + 1, starts, start_pos, ms, ts, prev_size,
             [conv |-> c.conv,
              positions |-> Append(acc.positions, c.position),
              frames |-> IF seq < Len(ts) /\ prev_size + i <= Len(acc.frames)
                         THEN [acc.frames EXCEPT
                                 ![prev_size + i].timestamp_ns = ts[seq + 1]]
                         ELSE acc.frames,
              queried |-> Append(acc.queried, starts[i]),
              monotone_ok |-> acc.monotone_ok /\ c.dcheck_ok,
              dchecks_ok |-> acc.dchecks_ok /\ c.dcheck_ok /\ seq < Len(ms)])

RECURSIVE MatchTimestamps_NoPrevSize(_, _, _, _, _, _, _)
MatchTimestamps_NoPrevSize(i, starts, start_pos, ms, ts, prev_size, acc) ==
  IF i > Len(starts) THEN acc
  ELSE LET c == Convert(acc.conv, ms, start_pos + starts[i])
           seq == c.position.seq_num
       IN  MatchTimestamps_NoPrevSize(i + 1, starts, start_pos, ms, ts, prev_size,
             [conv |-> c.conv,
              positions |-> Append(acc.positions, c.position),
              frames |-> IF seq < Len(ts) /\ i <= Len(acc.frames)
                         THEN [acc.frames EXCEPT ![i].timestamp_ns = ts[seq + 1]]
                         ELSE acc.frames,
              queried |-> Append(acc.queried, start_pos + starts[i]),
              monotone_ok |-> acc.monotone_ok /\ c.dcheck_ok,
              dchecks_ok |-> acc.dchecks_ok /\ c.dcheck_ok /\ seq < Len(ms)])

\* Under the adapter's contract seq < Len(ts) and prev_size + i <= Len(frames)
\* always hold; the IF only keeps the expression defined.
RECURSIVE MatchTimestamps(_, _, _, _, _, _, _)
MatchTimestamps(i, starts, start_pos, ms, ts, prev_size, acc) ==
  IF i > Len(starts) THEN acc
  ELSE LET c == Convert(acc.conv, ms, start_pos + starts[i])
           seq == c.position.seq_num
       IN  MatchTimestamps(i + 1, starts, start_pos, ms, ts, prev_size,
             [conv |-> c.conv,
              positions |-> Append(acc.positions, c.position),
              frames |-> IF seq < Len(ts) /\ prev_size + i <= Len(acc.frames)
                         THEN [acc.frames EXCEPT
                                 ![prev_size + i].timestamp_ns = ts[seq + 1]]
                         ELSE acc.frames,
              queried |-> Append(acc.queried, start_pos + starts[i]),
              monotone_ok |-> acc.monotone_ok /\ c.dcheck_ok,
              dchecks_ok |-> acc.dchecks_ok /\ c.dcheck_ok /\ seq < Len(ms)])

\* The members after "Reset all state".
ResetState_KeepSize(ms, ts, size) ==
  [msgs_ |-> <<>>, ts_nses_ |-> <<>>, msgs_size_ |-> size]

ResetState_KeepAppended(ms, ts, size) ==
  [msgs_ |-> ms, ts_nses_ |-> ts, msgs_size_ |-> size]

ResetState(ms, ts, size) ==
  [msgs_ |-> <<>>, ts_nses_ |-> <<>>, msgs_size_ |-> 0]

\* The offset handed to the converter for the end of consumption:
\* start_pos + result.end_position.
EndQuery_Local(start_pos, end_position) == end_position

EndQuery(start_pos, end_position) == start_pos + end_position

\* return {std::move(positions), end_position, result.state};
ReturnValue_DefaultState(positions, end_position, state) ==
  [start_positions |-> positions, end_position |-> end_position,
   state |-> "kInvalid"]

ReturnValue(positions, end_position, state) ==
  [start_positions |-> positions, end_position |-> end_position,
   state |-> state]

\* The body of EventParser::ParseFrames on members (ms, ts, size) and the
\* caller's deque prev, given the adapter's answers: found (the boundary, used
\* when resyncing) and parsed (the adapter's ParseResult<size_t> and the frames
\* it appended).  Yields the locals, the new members, the deque and the
\* returned ParseResult<BufferPosition>.
ParseFramesBody(ms, ts, size, prev, resync, found, parsed) ==
  LET buf == Combine(ms)
      start_pos == StartPos(resync, found)
      prev_size == Len(prev)
      buf_view == RemovePrefix(buf, start_pos)
      appended_to == prev \o parsed.frames
      matched == MatchTimestamps(1, parsed.start_positions, start_pos, ms, ts,
                   prev_size,
                   [conv |-> FreshConverter, positions |-> <<>>,
                    frames |-> appended_to, queried |-> <<>>,
                    monotone_ok |-> TRUE,
                    dchecks_ok |-> Len(appended_to) >= prev_size])
      last == Convert(matched.conv, ms,
                      EndQuery(start_pos, parsed.end_position))
  IN  [buf |-> buf,
       find_calls |-> IF resync THEN <<[buf |-> buf, start_pos |-> kStartPos]>>
                      ELSE <<>>,
       start_pos |-> start_pos,
       parse_calls |-> <<buf_view>>,
       frames |-> matched.frames,
       queried |-> Append(matched.queried,
                          EndQuery(start_pos, parsed.end_position)),
       monotone_ok |-> matched.monotone_ok /\ last.dcheck_ok,
       dchecks_ok |-> matched.dchecks_ok /\ last.dcheck_ok,
       members |-> ResetState(ms, ts, size),
       result |-> ReturnValue(matched.positions, last.position, parsed.state)]

\* Initial values of the EventParser part (a default-constructed parser that
\* has not been called).
NoParsed == [start_positions |-> <<>>, end_position |-> 0,
             state |-> "kInvalid", frames |-> <<>>]
NoCall == [resync |-> FALSE, found |-> NPOS, parsed |-> NoParsed,
           prev_frames |-> <<>>, msgs |-> <<>>, ts_nses |-> <<>>,
           msgs_size |-> 0, events |-> <<>>,
           buf |-> <<>>, find_calls |-> <<>>, start_pos |-> 0,
           parse_calls |-> <<>>, queried |-> <<>>, monotone_ok |-> TRUE,
           dchecks_ok |-> TRUE]
NoResult == [start_positions |-> <<>>, end_position |-> BufferPosition(0, 0),
             state |-> "kInvalid"]
NoCycle == [buf |-> <<>>, state |-> "none", new_frames |-> 0]

ParserInit ==
  /\ msgs_ = <<>>
  /\ ts_nses_ = <<>>
  /\ msgs_size_ = 0
  /\ frames = <<>>
  /\ result = NoResult
  /\ call = NoCall
  /\ appended = <<>>
  /\ prev_cycle = NoCycle

\* PositionConverter() { Reset(); } with the default member initialisers.
ConverterInit ==
  /\ curr_seq_ = 0
  /\ size_ = 0
  /\ last_query_pos_ = 0
  /\ position = BufferPosition(0, 0)
  /\ dcheck_ok = TRUE
  /\ queries = <<>>
  /\ monotone = TRUE

\* A converter and the fragment list it will be queried against.
ConvInit ==
  /\ op = "init"
  /\ msgs \in SeqsUpTo(OpaqueFragments, MaxConvFrags)
  /\ ConverterInit
  /\ ParserInit

\* The offsets a caller asks about.
QueryOffsets == 0..(TotalSize(msgs) + Overshoot)

\* converter.Convert(msgs, pos)
ConvertCall(pos) ==
  LET r == Convert([curr_seq_ |-> curr_seq_, size_ |-> size_,
                    last_query_pos_ |-> last_query_pos_], msgs, pos)
  IN  /\ op' = "Convert"
      /\ curr_seq_' = r.conv.curr_seq_
      /\ size_' = r.conv.size_
      /\ last_query_pos_' = r.conv.last_query_pos_
      /\ position' = r.position
      /\ dcheck_ok' = r.dcheck_ok
      /\ queries' = IF queries = <<>> THEN <<pos>>
                    ELSE <<queries[Len(queries)], pos>>
      /\ monotone' = IF op \in {"init", "Reset"} THEN TRUE
                     ELSE monotone /\ pos >= queries[Len(queries)]
      /\ UNCHANGED <<msgs, parserVars>>

\* converter.Reset(): last_query_pos_ is not among the members it resets.
Reset ==
  /\ op' = "Reset"
  /\ curr_seq_' = 0
  /\ size_' = 0
  /\ monotone' = TRUE
  /\ UNCHANGED <<msgs, last_query_pos_, position, dcheck_ok, queries,
                 parserVars>>

ConvNext ==
  \/ \E pos \in QueryOffsets : ConvertCall(pos)
  \/ Reset

ConvSpec == ConvInit /\ [][ConvNext]_vars

\* ------------------------------------------------------------------------
\* EventParser driven with an arbitrary adapter
\* ------------------------------------------------------------------------
Init ==
  /\ op = "init"
  /\ msgs = <<>>
  /\ ConverterInit
  /\ ParserInit

\* void Append(const SocketDataEvent& event)
AppendEvent_NoSize(msg, ts) ==
  /\ Len(msgs_) < MaxFrags
  /\ msgs_size_ + Len(msg) <= MaxBytes
  /\ op' = "Append"
  /\ msgs_' = Append(msgs_, msg)
  /\ ts_nses_' = Append(ts_nses_, ts)
  /\ msgs_size_' = msgs_size_
  /\ appended' = Append(appended, [msg |-> msg, ts |-> ts])
  /\ frames' = <<>>
  /\ result' = NoResult
  /\ call' = NoCall
  /\ UNCHANGED <<msgs, convVars>>

AppendEvent(msg, ts) ==
  /\ Len(msgs_) < MaxFrags
  /\ msgs_size_ + Len(msg) <= MaxBytes
  /\ op' = "Append"
  /\ msgs_' = Append(msgs_, msg)
  /\ ts_nses_' = Append(ts_nses_, ts)
  /\ msgs_size_' = msgs_size_ + Len(msg)
  /\ appended' = Append(appended, [msg |-> msg, ts |-> ts])
  /\ frames' = <<>>
  /\ result' = NoResult
  /\ call' = NoCall
  /\ UNCHANGED <<msgs, convVars>>

\* The deques a caller passes: frames of earlier cycles, which carry the
\* timestamp they were given then.
CallerDeques ==
  SeqsUpTo({[body |-> <<"A", "B">>, timestamp_ns |-> 300]}, MaxPrevFrames)

\* ParseResult<BufferPosition> ParseFrames(type, frames, resync)
ParseFrames(prev, resync, found, parsed) ==
  LET b == ParseFramesBody(msgs_, ts_nses_, msgs_size_, prev, resync, found,
                           parsed)
  IN  /\ op' = "ParseFrames"
      /\ msgs_' = b.members.msgs_
      /\ ts_nses_' = b.members.ts_nses_
      /\ msgs_size_' = b.members.msgs_size_
      /\ frames' = b.frames
      /\ result' = b.result
      /\ call' = [resync |-> resync, found |-> found, parsed |-> parsed,
                  prev_frames |-> prev, msgs |-> msgs_, ts_nses |-> ts_nses_,
                  msgs_size |-> msgs_size_, events |-> appended,
                  buf |-> b.buf, find_calls |-> b.find_calls,
                  start_pos |-> b.start_pos, parse_calls |-> b.parse_calls,
                  queried |-> b.queried, monotone_ok |-> b.monotone_ok,
                  dchecks_ok |-> b.dchecks_ok]
      /\ appended' = <<>>
      /\ UNCHANGED <<msgs, convVars>>

\* One ParseFrames call with an adapter that may give any permitted answer.
ParseFramesAny ==
  \E prev \in CallerDeques, resync \in BOOLEAN :
    \E found \in (IF resync THEN FindFrameBoundary(Combine(msgs_), kStartPos)
                  ELSE {NPOS}) :
      \E parsed \in ParseFramesAdapter(
                      RemovePrefix(Combine(msgs_), StartPos(resync, found))) :
        ParseFrames(prev, resync, found, parsed) /\ UNCHANGED prev_cycle

AppendAny ==
  \E msg \in OpaqueFragments, ts \in TsSet :
    AppendEvent(msg, ts) /\ UNCHANGED prev_cycle

Next ==
  \/ AppendAny
  \/ ParseFramesAny

Spec == Init /\ [][Next]_vars

\* ------------------------------------------------------------------------
\* EventParser driven with the adapter of a small protocol whose only frame
\* is the byte sequence ProtoFrame
\* ------------------------------------------------------------------------
ProtoFrame == <<"A", "B">>

\* Parse of one frame at the front of a non-empty buf.
ProtoParseFrame(buf) ==
  LET n == IF Len(buf) < Len(ProtoFrame) THEN Len(buf) ELSE Len(ProtoFrame)
  IN  IF SubSeq(buf, 1, n) # SubSeq(ProtoFrame, 1, n) THEN "kInvalid"
      ELSE IF n < Len(ProtoFrame) THEN "kNeedsMoreData"
      ELSE "kSuccess"

\* ParseFrames<ProtoFrame>: frames are parsed from the front of buf until the
\* buffer is empty or a frame does not parse.
RECURSIVE ProtoParseLoop(_, _, _)
ProtoParseLoop(buf, pos, starts) ==
  IF pos = Len(buf)
  THEN [start_positions |-> starts, end_position |-> pos, state |-> "kSuccess",
        frames |-> NewFrames(buf, starts, pos)]
  ELSE LET st == ProtoParseFrame(RemovePrefix(buf, pos))
       IN  IF st = "kSuccess"
           THEN ProtoParseLoop(buf, pos + Len(ProtoFrame), Append(starts, pos))
           ELSE [start_positions |-> starts, end_position |-> pos, state |-> st,
                 frames |-> NewFrames(buf, starts, pos)]

ProtoParseFrames(buf) == ProtoParseLoop(buf, 0, <<>>)

\* FindFrameBoundary<ProtoFrame>: the first position after start_pos that
\* holds the first byte of a frame.
ProtoFindFrameBoundary(buf, start_pos) ==
  LET cands == {i \in 0..(Len(buf) - 1) :
                  i > start_pos /\ buf[i + 1] = ProtoFrame[1]}
  IN  IF cands = {} THEN NPOS
      ELSE CHOOSE i \in cands : \A j \in cands : i <= j

\* The last completed cycle, kept when another operation follows it; only a
\* cycle that asked for more data without decoding a frame is remembered.
FiledCycle ==
  IF op = "ParseFrames"
  THEN IF result.state = "kNeedsMoreData" /\ result.start_positions = <<>>
       THEN [buf |-> call.buf, state |-> result.state,
             new_frames |-> Len(frames) - Len(call.prev_frames)]
       ELSE NoCycle
  ELSE prev_cycle

ProtoAppend ==
  \E msg \in Fragments, ts \in TsSet :
    AppendEvent(msg, ts) /\ prev_cycle' = FiledCycle

ProtoParse ==
  \E prev \in CallerDeques, resync \in BOOLEAN :
    LET found == IF resync
                 THEN ProtoFindFrameBoundary(Combine(msgs_), kStartPos)
                 ELSE NPOS
        parsed == ProtoParseFrames(
                    RemovePrefix(Combine(msgs_), StartPos(resync, found)))
    IN  ParseFrames(prev, resync, found, parsed) /\ prev_cycle' = FiledCycle

ProtoNext ==
  \/ ProtoAppend
  \/ ProtoParse

ProtoSpec == Init /\ [][ProtoNext]_vars

\* ------------------------------------------------------------------------
\* Properties of the PositionConverter (checked under ConvSpec)
\* ------------------------------------------------------------------------
\* Sum of the sizes of the first i buffers.
SumBefore(ms, i) == TotalSize(SubSeq(ms, 1, i))

\* The stateless translation of an offset o < TotalSize(ms): the buffer whose
\* span contains byte o, and the offset of that byte in it.
Reference(ms, o) ==
  LET i == CHOOSE j \in 0..(Len(ms) - 1) :
             SumBefore(ms, j) <= o /\ o < SumBefore(ms, j + 1)
  IN  BufferPosition(i, o - SumBefore(ms, i))

\* C1: offsets fed in non-decreasing order, each smaller than the total
\* length, are translated to (index, within) with
\* sum of the lengths before index + within = offset, which is the stateless
\* reference translation.
C1_TranslationCorrect ==
  (op = "Convert" /\ monotone /\ queries[Len(queries)] < TotalSize(msgs)) =>
    LET o == queries[Len(queries)]
    IN  /\ position.seq_num \in 0..(Len(msgs) - 1)
        /\ SumBefore(msgs, position.seq_num) + position.offset = o
        /\ position = Reference(msgs, o)

\* A later query of a non-decreasing pair lands behind a zero-length fragment.
C1_Witness ==
  /\ op = "Convert" /\ monotone /\ Len(queries) = 2
  /\ queries[1] < queries[2] /\ queries[2] < TotalSize(msgs)
  /\ position.seq_num = 2 /\ msgs[2] = <<>> /\ position.offset = 1

\* C2: an offset equal to or greater than the total length is translated to
\* (number of fragments, 0), whatever was queried before.
C2_EndSentinel ==
  (op = "Convert" /\ queries[Len(queries)] >= TotalSize(msgs)) =>
    position = BufferPosition(Len(msgs), 0)

\* The end is queried after a smaller offset moved the cursor, on a list that
\* ends in a zero-length fragment.
C2_Witness ==
  /\ op = "Convert" /\ Len(queries) = 2 /\ queries[1] < queries[2]
  /\ queries[1] > 0 /\ queries[2] = TotalSize(msgs)
  /\ Len(msgs) = 3 /\ msgs[3] = <<>> /\ msgs[1] # <<>>
  /\ position = BufferPosition(3, 0)

\* C8: the defensive check of a Convert call fails exactly when its offset is
\* strictly smaller than the offset of the previous Convert call on the
\* instance.
C8_MonotonicCheck ==
  op = "Convert" =>
    (~dcheck_ok <=> (Len(queries) = 2 /\ queries[2] < queries[1]))

\* An offset smaller than the previous one has tripped the check.
C8_Witness ==
  /\ op = "Convert" /\ Len(queries) = 2 /\ queries[2] < queries[1]
  /\ ~dcheck_ok

\* C10: every position returned for non-decreasing queries has its index in
\* [0, fragment count], offset 0 at the fragment count and an offset inside
\* the fragment otherwise.
C10_PositionRange ==
  (op = "Convert" /\ monotone) =>
    /\ position.seq_num \in 0..Len(msgs)
    /\ position.seq_num = Len(msgs) => position.offset = 0
    /\ position.seq_num < Len(msgs) =>
         /\ position.offset >= 0
         /\ position.offset < Len(msgs[position.seq_num + 1])

\* The last byte of a fragment that follows a zero-length fragment.
C10_Witness ==
  /\ op = "Convert" /\ monotone /\ Len(msgs) = 3 /\ msgs[1] = <<>>
  /\ position.seq_num = 1
  /\ position.offset = Len(msgs[2]) - 1 /\ position.offset > 0

\* ------------------------------------------------------------------------
\* Properties of the EventParser
\* ------------------------------------------------------------------------
\* The concatenation, in the order of appending, of the payloads of events.
RECURSIVE ConcatEvents(_)
ConcatEvents(ev) ==
  IF ev = <<>> THEN <<>>
  ELSE ConcatEvents(SubSeq(ev, 1, Len(ev) - 1)) \o ev[Len(ev)].msg

EventMsgs(ev) == [i \in 1..Len(ev) |-> ev[i].msg]

\* C3 (under ProtoSpec): when ParseFrames returns, whatever the resync flag and
\* the reported state, the accumulated fragments, their timestamps and the
\* cached size are empty / zero, and the buffer the call combined and handed
\* to the adapter (to the boundary search as a whole, to the decode from the
\* resolved start) is the concatenation, in order, of exactly the fragments
\* appended since the previous ParseFrames call.
C3_ClearOnParse ==
  op = "ParseFrames" =>
    /\ msgs_ = <<>>
    /\ ts_nses_ = <<>>
    /\ msgs_size_ = 0
    /\ call.buf = ConcatEvents(call.events)
    /\ \A i \in 1..Len(call.find_calls) :
         call.find_calls[i].buf = ConcatEvents(call.events)
    /\ Len(call.parse_calls) = 1
    /\ call.parse_calls[1] =
         SubSeq(ConcatEvents(call.events), call.start_pos + 1,
                Len(ConcatEvents(call.events)))

\* A cycle that reported invalid data on two fragments appended after a cycle
\* that had consumed nothing of its own, different, fragment.
C3_Witness ==
  /\ op = "ParseFrames" /\ result.state = "kInvalid"
  /\ prev_cycle.state = "kNeedsMoreData" /\ prev_cycle.buf = <<"A">>
  /\ Len(call.events) = 2
  /\ call.buf = <<"B", "A", "B">>
  /\ msgs_ = <<>> /\ ts_nses_ = <<>> /\ msgs_size_ = 0

\* C4 (under Spec): every frame decoded in a cycle, reported by the adapter at
\* local offset p while decoding started at offset s, gets the position that
\* is the translation of stream offset s + p and the timestamp of the
\* fragment that contains byte s + p.
C4_TimestampAttribution ==
  op = "ParseFrames" =>
    /\ Len(result.start_positions) = Len(call.parsed.start_positions)
    /\ \A i \in 1..Len(call.parsed.start_positions) :
         LET o == call.start_pos + call.parsed.start_positions[i]
             ref == Reference(EventMsgs(call.events), o)
         IN  /\ result.start_positions[i] = ref
             /\ frames[Len(call.prev_frames) + i].timestamp_ns =
                  call.events[ref.seq_num + 1].ts

\* Fragments of 1 and 2 bytes with timestamps 100 and 200, a resync that
\* moved the decode start to offset 2 and a frame at local offset 0: stream
\* offset 2, position (1, 1), timestamp 200.
C4_Witness ==
  /\ op = "ParseFrames" /\ call.resync /\ call.start_pos = 2
  /\ Len(call.events) = 2
  /\ Len(call.events[1].msg) = 1 /\ call.events[1].ts = 100
  /\ Len(call.events[2].msg) = 2 /\ call.events[2].ts = 200
  /\ call.parsed.start_positions = <<0>>
  /\ result.start_positions = <<BufferPosition(1, 1)>>
  /\ frames[Len(frames)].timestamp_ns = 200

\* The prefixes of a frame that are not yet a frame, and what they lack.
IsPartialFrame(b) ==
  /\ b # <<>>
  /\ Len(b) < Len(ProtoFrame)
  /\ b = SubSeq(ProtoFrame, 1, Len(b))

FrameRemainder(b) == SubSeq(ProtoFrame, Len(b) + 1, Len(ProtoFrame))

\* A cycle on a partial frame has reported needs-more-data and no frame.
AfterPartialCycle ==
  /\ op = "ParseFrames"
  /\ IsPartialFrame(prev_cycle.buf)
  /\ prev_cycle.state = "kNeedsMoreData"
  /\ prev_cycle.new_frames = 0

\* The cycle decoded exactly one frame, a complete one, with state success.
OneCompleteFrame ==
  /\ result.state = "kSuccess"
  /\ Len(frames) = Len(call.prev_frames) + 1
  /\ Len(result.start_positions) = 1
  /\ frames[Len(frames)].body = ProtoFrame

\* C5 as stated (under ProtoSpec): after a cycle on a partial frame that
\* reported needs-more-data and no frame, appending the remainder and parsing
\* again yields exactly one complete frame with state success.
C5_RemainderOnly ==
  (/\ AfterPartialCycle
   /\ ~call.resync
   /\ ConcatEvents(call.events) = FrameRemainder(prev_cycle.buf)) =>
    OneCompleteFrame

\* C5 as amended (under ProtoSpec): after a cycle on a partial frame that
\* reported needs-more-data and no frame, appending the bytes of the partial
\* frame again, then the remainder, and parsing without resync yields exactly
\* one complete frame with state success.
C5_ReappendAndRemainder ==
  (/\ AfterPartialCycle
   /\ ~call.resync
   /\ ConcatEvents(call.events) =
        prev_cycle.buf \o FrameRemainder(prev_cycle.buf)) =>
    OneCompleteFrame

\* The partial frame was appended again as a fragment of its own, followed by
\* the remainder, and the cycle decoded the frame.
C5_Witness ==
  /\ AfterPartialCycle
  /\ ~call.resync
  /\ Len(call.events) = 2
  /\ call.events[1].msg = prev_cycle.buf
  /\ call.events[2].msg = FrameRemainder(prev_cycle.buf)
  /\ OneCompleteFrame

\* C6 (under Spec): a resync cycle whose boundary search reported not-found
\* hands the adapter the whole buffer from offset 0 and returns and leaves
\* behind exactly what the cycle without resync does on the same accumulated
\* stream with the same decode answer.
C6_ResyncFallback ==
  (op = "ParseFrames" /\ call.resync /\ call.found = NPOS) =>
    LET plain == ParseFramesBody(call.msgs, call.ts_nses, call.msgs_size,
                                 call.prev_frames, FALSE, NPOS, call.parsed)
    IN  /\ call.start_pos = 0
        /\ call.parse_calls = <<call.buf>>
        /\ call.parse_calls = plain.parse_calls
        /\ result = plain.result
        /\ frames = plain.frames
        /\ msgs_ = plain.members.msgs_
        /\ ts_nses_ = plain.members.ts_nses_
        /\ msgs_size_ = plain.members.msgs_size_

\* No boundary was found in a buffer of 3 bytes in two fragments, and the
\* decode from offset 0 reported a frame in the second fragment.
C6_Witness ==
  /\ op = "ParseFrames" /\ call.resync /\ call.found = NPOS
  /\ Len(call.buf) = 3 /\ Len(call.events) = 2
  /\ call.parse_calls = <<call.buf>>
  /\ Len(result.start_positions) = 1
  /\ result.start_positions[1].seq_num = 1
  /\ result.state = "kNeedsMoreData"

\* C7 (under Spec): a resync cycle searches for a boundary exactly once, in
\* the whole combined buffer from offset 1; a boundary b it finds is > 1 and
\* the decode gets the buffer without its first b bytes, so it does not start
\* at offset 0.  A cycle without resync does not search and decodes from
\* offset 0.
C7_ResyncProgress ==
  op = "ParseFrames" =>
    IF call.resync
    THEN /\ call.find_calls =
              <<[buf |-> ConcatEvents(call.events), start_pos |-> 1]>>
         /\ call.found # NPOS =>
              /\ call.found > 1
              /\ call.start_pos = call.found
              /\ call.parse_calls =
                   <<SubSeq(call.buf, call.found + 1, Len(call.buf))>>
              /\ Len(call.parse_calls[1]) < Len(call.buf)
    ELSE /\ call.find_calls = <<>>
         /\ call.start_pos = 0
         /\ call.parse_calls = <<call.buf>>

\* A resync cycle on 3 bytes found the boundary 2 and the decode of the last
\* byte reported a frame at its local offset 0.
C7_Witness ==
  /\ op = "ParseFrames" /\ call.resync /\ call.found = 2
  /\ Len(call.buf) = 3
  /\ Len(call.find_calls) = 1
  /\ Len(call.parse_calls[1]) = 1
  /\ call.parsed.start_positions = <<0>>
  /\ result.start_positions = <<BufferPosition(1, 0)>>

\* C9 (under Spec): the frames that were in the deque before the call are an
\* unchanged prefix of the deque after it, the adapter's frames follow them,
\* and only those receive a timestamp.
C9_ExistingFramesUntouched ==
  op = "ParseFrames" =>
    /\ Len(frames) = Len(call.prev_frames) + Len(call.parsed.frames)
    /\ SubSeq(frames, 1, Len(call.prev_frames)) = call.prev_frames
    /\ \A i \in 1..Len(call.parsed.frames) :
         /\ frames[Len(call.prev_frames) + i].body = call.parsed.frames[i].body
         /\ frames[Len(call.prev_frames) + i].timestamp_ns \in
              {call.events[k].ts : k \in 1..Len(call.events)}

\* A deque that held a frame with timestamp 300 got two new frames, which
\* were given the timestamps of their fragments.
C9_Witness ==
  /\ op = "ParseFrames" /\ Len(call.prev_frames) = 1
  /\ Len(frames) = 3
  /\ frames[1].timestamp_ns = 300
  /\ frames[2].timestamp_ns = 100
  /\ frames[3].timestamp_ns = 200

\* In every state the parser keeps one timestamp per fragment and the size
\* of what it holds.
AccumulationConsistent ==
  /\ Len(msgs_) = Len(ts_nses_)
  /\ msgs_size_ = TotalSize(msgs_)

\* What a step that is an Append does: one fragment and its timestamp are
\* added at the end, what was accumulated stays as it was, the size grows by
\* the size of the fragment, the adapter is not called and there is no output.
AppendStep ==
  op' = "Append" =>
    /\ Len(msgs_') = Len(msgs_) + 1
    /\ Len(ts_nses_') = Len(ts_nses_) + 1
    /\ SubSeq(msgs_', 1, Len(msgs_)) = msgs_
    /\ SubSeq(ts_nses_', 1, Len(ts_nses_)) = ts_nses_
    /\ appended' = Append(appended, [msg |-> msgs_'[Len(msgs_')],
                                     ts |-> ts_nses_'[Len(ts_nses_')]])
    /\ msgs_size_' = msgs_size_ + Len(msgs_'[Len(msgs_')])
    /\ call'.find_calls = <<>> /\ call'.parse_calls = <<>>
    /\ frames' = <<>> /\ result' = NoResult

\* C11 (under Spec): Append adds the fragment and its timestamp at the end of
\* the accumulation, leaves the fragments and timestamps already there
\* unchanged and in order, grows the tracked size by the fragment's size,
\* parses nothing and produces no output; in every state there are as many
\* timestamps as fragments and the tracked size is the sum of their sizes.
C11_Append == [](AccumulationConsistent) /\ [][AppendStep]_vars

\* An empty fragment has been appended after a fragment of 2 bytes.
C11_Witness ==
  /\ op = "Append" /\ Len(msgs_) = 2 /\ Len(ts_nses_) = 2
  /\ Len(msgs_[1]) = 2 /\ msgs_[2] = <<>>
  /\ ts_nses_ = <<200, 100>>
  /\ msgs_size_ = 2

\* C12 (under Spec): a ParseFrames call runs the decode exactly once and the
\* boundary search at most once and returns the state the decode reported,
\* which is never the unknown state; a decode that found no frame and
\* consumed nothing gives an ordinary result with an empty list of positions.
C12_StatusPropagation ==
  op = "ParseFrames" =>
    /\ Len(call.parse_calls) = 1
    /\ Len(call.find_calls) <= 1
    /\ result.state = call.parsed.state
    /\ result.state # "kUnknown"
    /\ (call.parsed.start_positions = <<>> /\ call.parsed.end_position = 0) =>
         /\ result.start_positions = <<>>
         /\ result.state \in AdapterStates

\* A resync found no boundary in 3 bytes and the decode, from offset 0, asked
\* for more data without a frame or a consumed byte.
C12_Witness ==
  /\ op = "ParseFrames" /\ call.resync /\ call.found = NPOS
  /\ Len(call.buf) = 3 /\ call.start_pos = 0
  /\ call.parsed.state = "kNeedsMoreData"
  /\ call.parsed.start_positions = <<>> /\ call.parsed.end_position = 0
  /\ result.state = "kNeedsMoreData"
  /\ result.start_positions = <<>>

\* The stateless translation of any offset: an offset at or past the end of
\* the buffers is (number of buffers, 0).
Translate(ms, o) ==
  IF o < TotalSize(ms) THEN Reference(ms, o) ELSE BufferPosition(Len(ms), 0)

\* C13 (under Spec): the returned end position is the translation of stream
\* offset s + e, for the decode start s and the adapter's local end of
\* consumption e; it is (fragment count, 0) when the whole buffer was
\* consumed, and (0, 0) when nothing was consumed from s = 0 and the first
\* fragment is not empty or nothing is accumulated.
C13_EndPosition ==
  op = "ParseFrames" =>
    LET ms == EventMsgs(call.events)
        o == call.start_pos + call.parsed.end_position
    IN  /\ result.end_position = Translate(ms, o)
        /\ o = Len(ConcatEvents(call.events)) =>
             result.end_position = BufferPosition(Len(ms), 0)
        /\ (/\ call.start_pos = 0
            /\ call.parsed.end_position = 0
            /\ (ms = <<>> \/ ms[1] # <<>>)) =>
             result.end_position = BufferPosition(0, 0)

\* After a resync to offset 2 of fragments of 1 and 2 bytes the decode
\* consumed nothing: the end position is that of stream offset 2, (1, 1).
C13_Witness ==
  /\ op = "ParseFrames" /\ call.resync /\ call.start_pos = 2
  /\ Len(call.events) = 2
  /\ Len(call.events[1].msg) = 1 /\ Len(call.events[2].msg) = 2
  /\ call.parsed.end_position = 0 /\ call.parsed.state = "kInvalid"
  /\ result.end_position = BufferPosition(1, 1)

\* C14 (under Spec): the offsets a ParseFrames call hands to its converter
\* are the frame starts plus the decode start, in order, then the end of
\* consumption plus the decode start; they never decrease, and the
\* converter's check holds in every one of the calls.
C14_QueriesMonotonic ==
  op = "ParseFrames" =>
    /\ call.queried =
         [i \in 1..(Len(call.parsed.start_positions) + 1) |->
            call.start_pos +
              (IF i <= Len(call.parsed.start_positions)
               THEN call.parsed.start_positions[i]
               ELSE call.parsed.end_position)]
    /\ \A i \in 1..(Len(call.queried) - 1) :
         call.queried[i] <= call.queried[i + 1]
    /\ call.monotone_ok

\* Two frames, at offsets 0 and 2, and the end of consumption at 3.
C14_Witness ==
  /\ op = "ParseFrames" /\ call.queried = <<0, 2, 3>>
  /\ call.parsed.start_positions = <<0, 2>>
  /\ call.monotone_ok

\* C15 (under Spec): every frame start position computed in a ParseFrames
\* call lies in one of the accumulated fragments (index below the number of
\* fragments, offset inside the fragment), so that the assertion on the
\* sequence number and all other assertions of the call hold, the timestamp
\* is read at an index that exists and the frame written is one of the deque.
C15_FramePositionsInRange ==
  op = "ParseFrames" =>
    /\ Len(result.start_positions) = Len(call.parsed.frames)
    /\ \A i \in 1..Len(result.start_positions) :
         /\ result.start_positions[i].seq_num < Len(call.msgs)
         /\ result.start_positions[i].seq_num < Len(call.ts_nses)
         /\ result.start_positions[i].offset <
              Len(call.msgs[result.start_positions[i].seq_num + 1])
         /\ Len(call.prev_frames) + i <= Len(frames)
    /\ call.dchecks_ok

\* A resync cycle whose first fragment is empty: the frame at offset 0 is in
\* the second fragment and gets that fragment's timestamp.
C15_Witness ==
  /\ op = "ParseFrames" /\ call.resync
  /\ Len(call.msgs) = 2 /\ call.msgs[1] = <<>> /\ call.ts_nses = <<100, 200>>
  /\ Len(call.prev_frames) = 1
  /\ result.start_positions = <<BufferPosition(1, 0)>>
  /\ frames[2].timestamp_ns = 200
  /\ call.dchecks_ok

CursorConsistent ==
  /\ curr_seq_ \in 0..Len(msgs)
  /\ size_ = SumBefore(msgs, curr_seq_)

\* A step that is a Convert call does not move the cursor backwards.
CursorForward ==
  op' = "Convert" => (curr_seq_' >= curr_seq_ /\ size_' >= size_)

\* C17 (under ConvSpec): over any Convert calls on one converter and one
\* fragment list, the current index and the cumulative size never decrease
\* from one call to the next, the cumulative size is always the sum of the
\* sizes of the fragments before the current index, and the index never
\* exceeds the number of fragments.
C17_CursorMovesForward == [](CursorConsistent) /\ [][CursorForward]_vars

\* The first query stayed in the non-empty first fragment and the second
\* moved the cursor to the third fragment.
C17_Witness ==
  /\ op = "Convert" /\ Len(msgs) = 3 /\ msgs[1] # <<>>
  /\ queries = <<0, TotalSize(msgs) - 1>>
  /\ curr_seq_ = 2 /\ size_ = Len(msgs[1]) + Len(msgs[2])
  /\ size_ > 0

\* C18 (under ConvSpec): a Convert call that follows a Reset returns what a
\* newly constructed converter returns for the offset, and its defensive
\* check holds, whatever was queried before the Reset.
C18_ResetAsFresh ==
  [][(op = "Reset" /\ op' = "Convert") =>
       LET fresh == Convert(FreshConverter, msgs, queries'[Len(queries')])
       IN  /\ position' = fresh.position
           /\ dcheck_ok' = fresh.dcheck_ok
           /\ dcheck_ok']_vars

====
